---- MODULE Spec2Model ----
(***************************************************************************)
(* A state-machine model of the Parrot MiniDrone host driver:              *)
(*   - MiniDroneBtAdapter (src/lib/MiniDroneBtAdapter.js): the outbound    *)
(*     frame builders with their step counters, the connection life cycle  *)
(*     on top of noble, and the inbound frame decoder;                     *)
(*   - Drone (Drone.js, src/unnamed/part_001): the facade with the cached  *)
(*     flight parameters and the periodic event loop.                      *)
(* Every handler of the JavaScript program runs to completion on the one   *)
(* event-loop thread, so every action below is one whole handler.          *)
(***************************************************************************)
EXTENDS Integers, Sequences, FiniteSets, TLC

(***************************************************************************)
(* Protocol constants                                                      *)
(***************************************************************************)
MD_CLASSES ==
    [PILOTING |-> 0, SPEED_SETTINGS |-> 1, ANIMATION |-> 4, MEDIA_RECORD |-> 6,
     PILOTING_SETTINGS |-> 8, NAVIGATION_DATA_STATE |-> 24]

MD_METHODS ==
    [TRIM |-> 0, TAKEOFF |-> 1, LAND |-> 3, EMERGENCY |-> 4, PICTURE |-> 1,
     FLIP |-> 0, MAX_ALTITUDE |-> 0, MAX_TILT |-> 1, MAX_VERTICAL_SPEED |-> 0,
     MAX_ROTATION_SPEED |-> 1, DRONE_POSITION |-> 0, DRONE_SPEED |-> 1]

MD_DATA_TYPES == [ACK |-> 1, DATA |-> 2, LLD |-> 3, DATA_WITH_ACK |-> 4]

animations == [flipFront |-> 0, flipBack |-> 1, flipRight |-> 2, flipLeft |-> 3]

RX_COMMAND_WITH_ACK == "fb0e"

RX_COMMAND_NO_ACK == "fb0f"

FLIGHT_PARAMS_KEY == "fa0a"

COMMAND_KEY == "fa0b"

EMERGENCY_KEY == "fa0c"

\* The characteristic list as it would be without its last identifier.
CharacteristicMapWithoutFd54 ==
    <<RX_COMMAND_NO_ACK, RX_COMMAND_WITH_ACK, "fb1b", "fb1c", "fd22", "fd23",
      "fd24", "fd52", "fd53">>

CHARACTERISTIC_MAP ==
    <<RX_COMMAND_NO_ACK, RX_COMMAND_WITH_ACK, "fb1b", "fb1c", "fd22", "fd23",
      "fd24", "fd52", "fd53", "fd54">>

MD_DEVICE_TYPE == 2

FLIGHT_STATUSES ==
    <<"landed", "taking off", "hovering", "flying", "landing", "emergency",
      "rolling", "initializing">>

ALERT_STATE_CHANGED ==
    <<"none", "user", "cut_out", "critical_battery", "low_battery">>

\* The three keys of this.steps.
StepKeys == {FLIGHT_PARAMS_KEY, COMMAND_KEY, EMERGENCY_KEY}

\* JavaScript values that are not numbers or names of the program.
NULL == "null"

UNDEFINED == "undefined"

\* this.peripheral = null: no peripheral; peripherals are numbered from 1.
NO_PERIPHERAL == 0

\* this.batteryLevel = 'Unknown': the string sentinel, kept apart from every
\* byte value 0..255 the decoder can store.
BATTERY_UNKNOWN == -1

\* this.alertStatus = 0: the constructor's number, kept apart from every name.
ALERT_INITIAL == "0"

(***************************************************************************)
(* Buffers: a Buffer of n bytes is a sequence of n values in 0..255; the   *)
(* byte at JavaScript offset o is element o + 1.                           *)
(***************************************************************************)
ZeroBuffer(n) == [i \in 1..n |-> 0]

\* Whether Buffer#writeInt16LE accepts the value (it raises out of bounds).
Int16InRange(value) == value >= -32768 /\ value <= 32767

\* Buffer#writeInt16LE(value, offset): two's complement, low byte first.
WriteInt16LE(buf, value, offset) ==
    LET u == (value + 65536) % 65536
    IN  [buf EXCEPT ![offset + 1] = u % 256, ![offset + 2] = u \div 256]

RECURSIVE Log2Floor(_)
Log2Floor(n) == IF n <= 1 THEN 0 ELSE 1 + Log2Floor(n \div 2)

\* The IEEE-754 binary32 bit pattern of a natural number below 2^24.
Float32Bits(v) ==
    IF v = 0 THEN 0
    ELSE LET e == Log2Floor(v)
         IN  (e + 127) * (2 ^ 23) + (v - 2 ^ e) * (2 ^ (23 - e))

\* Buffer#writeFloatLE(value, offset): the four bytes of the bit pattern, low first.
WriteFloatLE(buf, value, offset) ==
    LET bits == Float32Bits(value)
    IN  [buf EXCEPT ![offset + 1] = bits % 256,
                    ![offset + 2] = (bits \div 256) % 256,
                    ![offset + 3] = (bits \div 65536) % 256,
                    ![offset + 4] = (bits \div 16777216) % 256]

\* n & 0xFF
Mask8(n) == n % 256

(***************************************************************************)
(* State                                                                   *)
(***************************************************************************)
VARIABLES
    \* MiniDroneBtAdapter fields
    connected, peripheral, characteristics, batteryLevel, steps, flightStatus,
    alertStatus, flightParams,
    \* noble and the pending callbacks of the adapter
    scanning, link, pendingConnect, pendingDiscover, disconnectListeners,
    dataListeners, subscribed, pendingTimers, pendingRssi,
    \* Drone fields
    network, droneFlightParams,
    \* what the last handler did: its name and input, the characteristic
    \* writes it issued, the events it emitted, whether it raised, the value
    \* it returned when it returns one
    lastOp, lastArg, writes, events, raised, returned

adapterVars ==
    <<connected, peripheral, characteristics, batteryLevel, steps, flightStatus,
      alertStatus, flightParams>>

nobleVars ==
    <<scanning, link, pendingConnect, pendingDiscover, disconnectListeners,
      dataListeners, subscribed, pendingTimers, pendingRssi>>

droneVars == <<network, droneFlightParams>>

vars ==
    <<connected, peripheral, characteristics, batteryLevel, steps, flightStatus,
      alertStatus, flightParams, scanning, link, pendingConnect, pendingDiscover,
      disconnectListeners, dataListeners, subscribed, pendingTimers, pendingRssi,
      network, droneFlightParams, lastOp, lastArg, writes, events, raised,
      returned>>

ZeroParams == [roll |-> 0, pitch |-> 0, yaw |-> 0, altitude |-> 0]

(***************************************************************************)
(* Initial state: new Drone(options), which constructs the adapter at once *)
(* when options.autoconnect is set.  The adapter fields hold the values    *)
(* its constructor assigns; they are not touched before Drone#connect has  *)
(* constructed the adapter (every adapter action requires network set).    *)
(***************************************************************************)
ADAPTER == "MiniDroneBtAdapter"

Init ==
    /\ connected = FALSE
    /\ peripheral = NO_PERIPHERAL
    /\ characteristics = {}
    /\ batteryLevel = BATTERY_UNKNOWN
    /\ steps = [k \in StepKeys |-> 0]
    /\ flightStatus = NULL
    /\ alertStatus = ALERT_INITIAL
    /\ flightParams = ZeroParams
    /\ scanning = FALSE
    /\ link = {}
    /\ pendingConnect = {}
    /\ pendingDiscover = {}
    /\ disconnectListeners = {}
    /\ dataListeners = {}
    /\ subscribed = {}
    /\ pendingTimers = 0
    /\ pendingRssi = 0
    /\ network \in {NULL, ADAPTER}
    /\ droneFlightParams = ZeroParams
    /\ lastOp = "constructor"
    /\ lastArg = <<>>
    /\ writes = <<>>
    /\ events = <<>>
    /\ raised = FALSE
    /\ returned = <<>>

\* What every handler records about itself.
Did(op, arg, w, e, r) ==
    /\ lastOp' = op
    /\ lastArg' = arg
    /\ writes' = w
    /\ events' = e
    /\ raised' = r
    /\ returned' = <<>>

Event(name, payload) == [name |-> name, payload |-> payload]

(***************************************************************************)
(* Outbound: write, createBuffer and the frame builders                    *)
(***************************************************************************)
\* getCharacteristic(uuid): the characteristics whose uuid matches the key; the
\* code takes the first.  A characteristic is named by its four-digit key, the
\* only place of a Parrot uuid where the keys of this program can match.
getCharacteristic(uuid) == {c \in characteristics : c.uuid = uuid}

\* write(uuid, buffer), first part: the early return and the reset of the
\* counter of the key written to.  s holds the counters as the caller left them.
WriteSteps(s, uuid) ==
    IF characteristics = {} THEN s
    ELSE IF s[uuid] >= 255 THEN [s EXCEPT ![uuid] = 0] ELSE s

\* write as it would be if it wrote the frame a second time.
WriteFramesTwice(uuid, buffer) ==
    IF characteristics = {} \/ getCharacteristic(uuid) = {} THEN <<>>
    ELSE LET c == CHOOSE x \in getCharacteristic(uuid) : TRUE
             f == [p |-> c.p, uuid |-> c.uuid, buffer |-> buffer,
                   withoutResponse |-> TRUE]
         IN  <<f, f>>

\* write(uuid, buffer), second part: one write without response on the
\* characteristic found, none when no characteristic is held.
WriteFrames(uuid, buffer) ==
    IF characteristics = {} \/ getCharacteristic(uuid) = {} THEN <<>>
    ELSE LET c == CHOOSE x \in getCharacteristic(uuid) : TRUE
         IN  <<[p |-> c.p, uuid |-> c.uuid, buffer |-> buffer,
                withoutResponse |-> TRUE]>>

\* write raises when characteristics are held and none matches the key:
\* getCharacteristic gives undefined and .write is called on it.
WriteRaises(uuid) == characteristics # {} /\ getCharacteristic(uuid) = {}

\* createBuffer(uuid, args), on the counters s already incremented.
createBuffer(s, uuid, args) == <<MD_DATA_TYPES.DATA, Mask8(s[uuid]), MD_DEVICE_TYPE>> \o args

\* The increment as it would be if its update were lost.
IncrementLost(s, uuid) == s

\* ++this.steps[uuid]
Increment(s, uuid) == [s EXCEPT ![uuid] = @ + 1]

\* A command built by createBuffer and handed to write: writeTrim, writeTakeoff,
\* writeLand, writeEmergency, writeTakePicture, writeAnimation.
SendCommand(op, arg, uuid, args) ==
    LET s1 == Increment(steps, uuid)
        buffer == createBuffer(s1, uuid, args)
    IN  /\ network # NULL
        /\ steps' = WriteSteps(s1, uuid)
        /\ Did(op, arg, WriteFrames(uuid, buffer), <<>>, WriteRaises(uuid))
        /\ UNCHANGED <<connected, peripheral, characteristics, batteryLevel,
                       flightStatus, alertStatus, flightParams>>
        /\ UNCHANGED nobleVars
        /\ UNCHANGED droneVars

writeTrim ==
    SendCommand("writeTrim", <<>>, COMMAND_KEY,
                <<MD_CLASSES.PILOTING, MD_METHODS.TRIM, 0>>)

writeTakeoff ==
    SendCommand("writeTakeoff", <<>>, COMMAND_KEY,
                <<MD_CLASSES.PILOTING, MD_METHODS.TAKEOFF, 0>>)

writeLand ==
    SendCommand("writeLand", <<>>, COMMAND_KEY,
                <<MD_CLASSES.PILOTING, MD_METHODS.LAND, 0>>)

\* writeEmergency as it would be on the acknowledged-command channel.
writeEmergencyAcknowledged ==
    SendCommand("writeEmergency", <<>>, COMMAND_KEY,
                <<MD_CLASSES.PILOTING, MD_METHODS.EMERGENCY, 0>>)

writeEmergency ==
    SendCommand("writeEmergency", <<>>, EMERGENCY_KEY,
                <<MD_CLASSES.PILOTING, MD_METHODS.EMERGENCY, 0>>)

writeTakePicture ==
    SendCommand("writeTakePicture", <<>>, COMMAND_KEY,
                <<MD_CLASSES.MEDIA_RECORD, MD_METHODS.PICTURE, 0>>)

\* Names every object inherits from Object.prototype: animations[name] is a
\* function (or an object) for them, and so is not undefined.
ObjectPrototypeKeys ==
    {"constructor", "toString", "valueOf", "hasOwnProperty", "isPrototypeOf",
     "propertyIsEnumerable", "toLocaleString", "__proto__"}

\* typeof animations[animation] === 'undefined'
AnimationUndefined(animation) ==
    animation \notin DOMAIN animations /\ animation \notin ObjectPrototypeKeys

\* The byte new Buffer([...]) stores for animations[animation]: the number of
\* an own key, 0 for a value that is not a number.
AnimationByte(animation) ==
    IF animation \in DOMAIN animations THEN animations[animation] ELSE 0

writeAnimation(animation) ==
    IF AnimationUndefined(animation)
    THEN /\ network # NULL
         /\ Did("writeAnimation", <<animation>>, <<>>, <<>>, FALSE)
         /\ UNCHANGED adapterVars
         /\ UNCHANGED nobleVars
         /\ UNCHANGED droneVars
    ELSE SendCommand("writeAnimation", <<animation>>, COMMAND_KEY,
                     <<MD_CLASSES.ANIMATION, MD_METHODS.FLIP, 0,
                       AnimationByte(animation), 0, 0, 0>>)

\* writeFlightParams as it would build the frame if the four parameters were
\* written two bytes apart.
FlightParamsBufferSpaced(step, fp) ==
    LET b0  == ZeroBuffer(19)
        b1  == WriteInt16LE(b0, 2, 0)
        b2  == WriteInt16LE(b1, step, 1)
        b3  == WriteInt16LE(b2, 2, 2)
        b4  == WriteInt16LE(b3, 0, 3)
        b5  == WriteInt16LE(b4, 2, 4)
        b6  == WriteInt16LE(b5, 0, 5)
        b7  == WriteInt16LE(b6, 1, 6)
        b8  == WriteInt16LE(b7, fp.roll, 7)
        b9  == WriteInt16LE(b8, fp.pitch, 9)
        b10 == WriteInt16LE(b9, fp.yaw, 11)
    IN  WriteInt16LE(b10, fp.altitude, 13)

\* The 19 bytes writeFlightParams builds, by its twelve overlapping writes.
FlightParamsBuffer(step, fp) ==
    LET b0  == ZeroBuffer(19)
        b1  == WriteInt16LE(b0, 2, 0)
        b2  == WriteInt16LE(b1, step, 1)
        b3  == WriteInt16LE(b2, 2, 2)
        b4  == WriteInt16LE(b3, 0, 3)
        b5  == WriteInt16LE(b4, 2, 4)
        b6  == WriteInt16LE(b5, 0, 5)
        b7  == WriteInt16LE(b6, 1, 6)
        b8  == WriteInt16LE(b7, fp.roll, 7)
        b9  == WriteInt16LE(b8, fp.pitch, 8)
        b10 == WriteInt16LE(b9, fp.yaw, 9)
        b11 == WriteInt16LE(b10, fp.altitude, 10)
    IN  WriteFloatLE(b11, 0, 11)

ParamsTuple(fp) == <<fp.roll, fp.pitch, fp.yaw, fp.altitude>>

WriteFlightParamsBy(op, fp) ==
    LET s1 == Increment(steps, FLIGHT_PARAMS_KEY)
        step == s1[FLIGHT_PARAMS_KEY]
        buffer == FlightParamsBuffer(step, fp)
        built == /\ Int16InRange(step)
                 /\ \A i \in 1..4 : Int16InRange(ParamsTuple(fp)[i])
        throws == ~built \/ WriteRaises(FLIGHT_PARAMS_KEY)
    IN  /\ network # NULL
        /\ flightParams' = fp
        /\ steps' = IF built THEN WriteSteps(s1, FLIGHT_PARAMS_KEY) ELSE s1
        /\ Did(op, ParamsTuple(fp),
               IF built THEN WriteFrames(FLIGHT_PARAMS_KEY, buffer) ELSE <<>>,
               IF throws THEN <<>> ELSE <<Event("flightParamChange", ParamsTuple(fp))>>,
               throws)
        /\ UNCHANGED <<connected, peripheral, characteristics, batteryLevel,
                       flightStatus, alertStatus>>
        /\ UNCHANGED nobleVars
        /\ UNCHANGED droneVars

writeFlightParams(fp) == WriteFlightParamsBy("writeFlightParams", fp)

\* The 19 bytes the four limit setters build.
LimitBuffer(step, class, method, value) ==
    LET b0 == ZeroBuffer(19)
        b1 == WriteInt16LE(b0, 2, 0)
        b2 == WriteInt16LE(b1, step, 1)
        b3 == WriteInt16LE(b2, 2, 2)
        b4 == WriteInt16LE(b3, class, 3)
        b5 == WriteInt16LE(b4, method, 4)
        b6 == WriteInt16LE(b5, 0, 5)
        b7 == WriteFloatLE(b6, value, 6)
    IN  WriteFloatLE(b7, 0, 10)

\* writeMaxAltitude, writeMaxTilt, writeMaxVerticalSpeed, writeMaxRotationSpeed:
\* each increments steps[FLIGHT_PARAMS_KEY] and writes to COMMAND_KEY.
WriteLimit(op, class, method, value, eventName) ==
    LET s1 == Increment(steps, FLIGHT_PARAMS_KEY)
        step == s1[FLIGHT_PARAMS_KEY]
        buffer == LimitBuffer(step, class, method, value)
        throws == ~Int16InRange(step) \/ WriteRaises(COMMAND_KEY)
    IN  /\ network # NULL
        /\ steps' = IF Int16InRange(step) THEN WriteSteps(s1, COMMAND_KEY) ELSE s1
        /\ Did(op, <<value>>,
               IF Int16InRange(step) THEN WriteFrames(COMMAND_KEY, buffer) ELSE <<>>,
               IF throws THEN <<>> ELSE <<Event(eventName, value)>>,
               throws)
        /\ UNCHANGED <<connected, peripheral, characteristics, batteryLevel,
                       flightStatus, alertStatus, flightParams>>
        /\ UNCHANGED nobleVars
        /\ UNCHANGED droneVars

writeMaxAltitude(altitude) ==
    WriteLimit("writeMaxAltitude", MD_CLASSES.PILOTING_SETTINGS,
               MD_METHODS.MAX_ALTITUDE, altitude, "maxAltitudeChange")

writeMaxTilt(tilt) ==
    WriteLimit("writeMaxTilt", MD_CLASSES.PILOTING_SETTINGS,
               MD_METHODS.MAX_TILT, tilt, "maxTiltChange")

writeMaxVerticalSpeed(verticalSpeed) ==
    WriteLimit("writeMaxVerticalSpeed", MD_CLASSES.SPEED_SETTINGS,
               MD_METHODS.MAX_VERTICAL_SPEED, verticalSpeed, "maxVerticalSpeedChange")

writeMaxRotationSpeed(rotationSpeed) ==
    WriteLimit("writeMaxRotationSpeed", MD_CLASSES.SPEED_SETTINGS,
               MD_METHODS.MAX_ROTATION_SPEED, rotationSpeed, "maxRotationSpeedChange")

(***************************************************************************)
(* Peripherals noble can report.  A peripheral is named by a number; its   *)
(* advertisement and the characteristics its discovery yields are fixed.   *)
(***************************************************************************)
DRONE_PREFIXES ==
    << <<"R","S","_">>, <<"M","a","r","s","_">>, <<"T","r","a","v","i","s","_">>,
       <<"M","a","c","l","a","n","_">>, <<"M","a","m","b","o","_">>,
       <<"B","l","a","z","e","_">>, <<"N","e","w","Z","_">> >>

MANUFACTURER_SERIALS == <<"4300cf1900090100", "4300cf1909090100", "4300cf1907090100">>

\* 1: a Mambo; 2: some other BLE device; 3: a Rolling Spider; 4: another Mambo;
\* 5: a device with a drone prefix inside its name; 6: a device with an empty
\* name; 7 to 9: other devices that advertise manufacturer data.
LocalName(p) ==
    CASE p = 1 -> <<"M","a","m","b","o","_","1","2","A","B">>
      [] p = 2 -> <<"S","o","m","e","R","a","n","d","o","m","B","L","E">>
      [] p = 4 -> <<"M","a","m","b","o","_","1">>
      [] p = 5 -> <<"M","y","_","R","S","_","1">>
      [] p = 6 -> <<>>
      [] p \in {7, 8, 9} -> <<"T","a","g">>
      [] OTHER -> <<"R","S","_","9","0","0","1">>

\* advertisement.manufacturerData: absent, or the string of a listed serial (7),
\* or a Buffer holding the bytes of a listed serial, as noble gives it (8), or
\* a string that is no listed serial (9).
ManufacturerData(p) ==
    CASE p = 7 -> [kind |-> "string", hex |-> "4300cf1900090100"]
      [] p = 8 -> [kind |-> "buffer", hex |-> "4300cf1900090100"]
      [] p = 9 -> [kind |-> "string", hex |-> "4300cf1900000000"]
      [] OTHER -> [kind |-> UNDEFINED, hex |-> ""]

\* The keys of the characteristics a drone exposes.
DroneCharacteristics ==
    {CHARACTERISTIC_MAP[i] : i \in 1..Len(CHARACTERISTIC_MAP)} \cup StepKeys

PeripheralCharacteristics(p) == IF p = 2 THEN {} ELSE DroneCharacteristics

\* String#indexOf(prefix) >= 0: the prefix occurs somewhere in the name.
Contains(name, part) ==
    \E i \in 0..(Len(name) - Len(part)) : SubSeq(name, i + 1, i + Len(part)) = part

StartsWith(name, part) ==
    Len(part) <= Len(name) /\ SubSeq(name, 1, Len(part)) = part

\* new RegExp(filter).test(name), for a filter made of literal characters with
\* an optional leading ^.
RegExpTest(filter, name) ==
    IF filter # <<>> /\ Head(filter) = "^" THEN StartsWith(name, Tail(filter))
    ELSE Contains(name, filter)

\* MANUFACTURER_SERIALS.indexOf(manufacturer) >= 0: strict equality with one of
\* the serial strings.
ManufacturerMatch(m) ==
    /\ m.kind = "string"
    /\ \E i \in 1..Len(MANUFACTURER_SERIALS) : MANUFACTURER_SERIALS[i] = m.hex

\* validatePeripheral as it would be if the prefixes were consulted whatever
\* the filter.
validatePeripheralPrefixesAlways(p, droneFilter) ==
    LET localName == LocalName(p)
        localNameMatch ==
            \/ localName # <<>> /\
                 \E i \in 1..Len(DRONE_PREFIXES) : Contains(localName, DRONE_PREFIXES[i])
            \/ droneFilter # <<>> /\ RegExpTest(droneFilter, localName)
    IN  localNameMatch \/ ManufacturerMatch(ManufacturerData(p))

validatePeripheral(p, droneFilter) ==
    LET localName == LocalName(p)
        localNameMatch ==
            IF droneFilter = <<>>
            THEN localName # <<>> /\
                 \E i \in 1..Len(DRONE_PREFIXES) : Contains(localName, DRONE_PREFIXES[i])
            ELSE RegExpTest(droneFilter, localName)
    IN  localNameMatch \/ ManufacturerMatch(ManufacturerData(p))

\* Drone#connect constructs the adapter without options: droneFilter is ''.
options_droneFilter == <<>>

\* validatePeripheral(peripheral) called on an adapter constructed with
\* options.droneFilter = droneFilter: it returns the match and changes nothing.
validatePeripheralCall(p, droneFilter) ==
    /\ network # NULL
    /\ lastOp' = "validatePeripheral"
    /\ lastArg' = <<p, droneFilter>>
    /\ writes' = <<>>
    /\ events' = <<>>
    /\ raised' = FALSE
    /\ returned' = <<validatePeripheral(p, droneFilter)>>
    /\ UNCHANGED adapterVars
    /\ UNCHANGED nobleVars
    /\ UNCHANGED droneVars

(***************************************************************************)
(* Connection life cycle                                                   *)
(***************************************************************************)
onNobleStateChange(state) ==
    /\ network # NULL
    /\ scanning' = IF state = "poweredOn" THEN TRUE ELSE scanning
    /\ Did("onNobleStateChange", <<state>>, <<>>,
           IF state = "poweredOff" THEN <<Event("poweredOff", TRUE)>> ELSE <<>>, FALSE)
    /\ UNCHANGED adapterVars
    /\ UNCHANGED <<link, pendingConnect, pendingDiscover, disconnectListeners,
                   dataListeners, subscribed, pendingTimers, pendingRssi>>
    /\ UNCHANGED droneVars

\* The handler of noble's discover event; it tests neither whether noble still
\* scans nor whether a peripheral is already selected.
onPeripheralDiscovery(p) ==
    /\ network # NULL
    /\ IF ~validatePeripheral(p, options_droneFilter)
       THEN UNCHANGED <<peripheral, scanning, pendingConnect>>
       ELSE /\ scanning' = FALSE
            /\ peripheral' = p
            /\ pendingConnect' = pendingConnect \cup {p}
    /\ Did("onPeripheralDiscovery", <<p>>, <<>>, <<>>, FALSE)
    /\ UNCHANGED <<connected, characteristics, batteryLevel, steps, flightStatus,
                   alertStatus, flightParams>>
    /\ UNCHANGED <<link, pendingDiscover, disconnectListeners, dataListeners,
                   subscribed, pendingTimers, pendingRssi>>
    /\ UNCHANGED droneVars

\* The callback of peripheral.connect: throws on an error; otherwise runs
\* setupPeripheral and registers the disconnect handler on this.peripheral.
ConnectCallback(p, error) ==
    /\ p \in pendingConnect
    /\ pendingConnect' = pendingConnect \ {p}
    /\ IF error
       THEN /\ Did("connectCallback", <<p, error>>, <<>>, <<>>, TRUE)
            /\ UNCHANGED <<link, pendingDiscover, disconnectListeners>>
       ELSE /\ link' = link \cup {p}
            /\ IF peripheral = NO_PERIPHERAL
               THEN /\ Did("connectCallback", <<p, error>>, <<>>, <<>>, TRUE)
                    /\ UNCHANGED <<pendingDiscover, disconnectListeners>>
               ELSE /\ pendingDiscover' = pendingDiscover \cup {peripheral}
                    /\ disconnectListeners' = disconnectListeners \cup {peripheral}
                    /\ Did("connectCallback", <<p, error>>, <<>>, <<>>, FALSE)
    /\ UNCHANGED adapterVars
    /\ UNCHANGED <<scanning, dataListeners, subscribed, pendingTimers, pendingRssi>>
    /\ UNCHANGED droneVars

\* The keys of CHARACTERISTIC_MAP subscribed before getCharacteristic(key) fails.
RECURSIVE SubscribedUpTo(_, _)
SubscribedUpTo(chars, i) ==
    IF i > Len(CHARACTERISTIC_MAP) \/ CHARACTERISTIC_MAP[i] \notin chars THEN {}
    ELSE {CHARACTERISTIC_MAP[i]} \cup SubscribedUpTo(chars, i + 1)

\* The callback of discoverAllServicesAndCharacteristics on peripheral q.
DiscoverCallback(q, err) ==
    LET chars == PeripheralCharacteristics(q)
        keys == SubscribedUpTo(chars, 1)
        allKeys == Cardinality(keys) = Len(CHARACTERISTIC_MAP)
    IN  /\ q \in pendingDiscover
        /\ err \/ q \in link
        /\ pendingDiscover' = pendingDiscover \ {q}
        /\ IF err
           THEN /\ Did("discoverCallback", <<q, err>>, <<>>, <<>>, TRUE)
                /\ UNCHANGED <<characteristics, subscribed, dataListeners, connected,
                               pendingTimers>>
           ELSE /\ characteristics' = {[p |-> q, uuid |-> u] : u \in chars}
                /\ subscribed' = subscribed \cup {[p |-> q, uuid |-> u] : u \in keys}
                /\ IF ~allKeys
                   THEN /\ Did("discoverCallback", <<q, err>>, <<>>, <<>>, TRUE)
                        /\ UNCHANGED <<dataListeners, connected, pendingTimers>>
                   ELSE /\ dataListeners' = dataListeners \cup
                               {[p |-> q, uuid |-> RX_COMMAND_NO_ACK],
                                [p |-> q, uuid |-> RX_COMMAND_WITH_ACK]}
                        /\ connected' = TRUE
                        /\ IF peripheral = NO_PERIPHERAL
                           THEN /\ Did("discoverCallback", <<q, err>>, <<>>, <<>>, TRUE)
                                /\ UNCHANGED pendingTimers
                           ELSE /\ pendingTimers' = pendingTimers + 1
                                /\ Did("discoverCallback", <<q, err>>, <<>>, <<>>, FALSE)
        /\ UNCHANGED <<peripheral, batteryLevel, steps, flightStatus, alertStatus,
                       flightParams>>
        /\ UNCHANGED <<scanning, link, pendingConnect, disconnectListeners, pendingRssi>>
        /\ UNCHANGED droneVars

\* setTimeout(() => this.emit('connected'), 200)
ConnectedTimer ==
    /\ pendingTimers > 0
    /\ pendingTimers' = pendingTimers - 1
    /\ Did("connectedTimer", <<>>, <<>>, <<Event("connected", UNDEFINED)>>, FALSE)
    /\ UNCHANGED adapterVars
    /\ UNCHANGED <<scanning, link, pendingConnect, pendingDiscover, disconnectListeners,
                   dataListeners, subscribed, pendingRssi>>
    /\ UNCHANGED droneVars

\* onDisconnect as it would be if it kept the characteristics.
onDisconnectKeepingCharacteristics ==
    /\ peripheral' = NO_PERIPHERAL
    /\ connected' = FALSE
    /\ scanning' = TRUE
    /\ Did("onDisconnect", <<>>, <<>>, <<Event("disconnected", UNDEFINED)>>, FALSE)
    /\ UNCHANGED <<characteristics, batteryLevel, steps, flightStatus, alertStatus,
                   flightParams>>

\* onDisconnect as it would be if it started the step counters again.
onDisconnectRestartingSteps ==
    /\ characteristics' = {}
    /\ peripheral' = NO_PERIPHERAL
    /\ connected' = FALSE
    /\ scanning' = TRUE
    /\ steps' = [k \in StepKeys |-> 0]
    /\ Did("onDisconnect", <<>>, <<>>, <<Event("disconnected", UNDEFINED)>>, FALSE)
    /\ UNCHANGED <<batteryLevel, flightStatus, alertStatus, flightParams>>

\* onDisconnect as it would be if it kept the peripheral.
onDisconnectKeepingPeripheral ==
    /\ characteristics' = {}
    /\ connected' = FALSE
    /\ scanning' = TRUE
    /\ Did("onDisconnect", <<>>, <<>>, <<Event("disconnected", UNDEFINED)>>, FALSE)
    /\ UNCHANGED <<peripheral, batteryLevel, steps, flightStatus, alertStatus,
                   flightParams>>

\* onDisconnect as it would be if it reset the decoded flight status.
onDisconnectResetting ==
    /\ characteristics' = {}
    /\ peripheral' = NO_PERIPHERAL
    /\ connected' = FALSE
    /\ scanning' = TRUE
    /\ flightStatus' = NULL
    /\ Did("onDisconnect", <<>>, <<>>, <<Event("disconnected", UNDEFINED)>>, FALSE)
    /\ UNCHANGED <<batteryLevel, steps, alertStatus, flightParams>>

\* onDisconnect, the once-handler of the peripheral's disconnect event.
onDisconnect ==
    /\ characteristics' = {}
    /\ peripheral' = NO_PERIPHERAL
    /\ connected' = FALSE
    /\ scanning' = TRUE
    /\ Did("onDisconnect", <<>>, <<>>, <<Event("disconnected", UNDEFINED)>>, FALSE)
    /\ UNCHANGED <<batteryLevel, steps, flightStatus, alertStatus, flightParams>>

\* The link to peripheral p drops while no disconnect handler is registered on
\* p: no handler of the adapter runs.
LinkLost(p) ==
    /\ p \in link
    /\ p \notin disconnectListeners
    /\ link' = link \ {p}
    /\ pendingDiscover' = pendingDiscover \ {p}
    /\ Did("linkLost", <<p>>, <<>>, <<>>, FALSE)
    /\ UNCHANGED adapterVars
    /\ UNCHANGED <<scanning, pendingConnect, disconnectListeners, dataListeners,
                   subscribed, pendingTimers, pendingRssi>>
    /\ UNCHANGED droneVars

\* The link to peripheral p drops: noble emits its disconnect event, which runs
\* onDisconnect when the handler is registered on p.  No reply to a discovery
\* still pending on p arrives afterwards.
PeripheralDisconnect(p) ==
    /\ p \in link
    /\ p \in disconnectListeners
    /\ link' = link \ {p}
    /\ disconnectListeners' = disconnectListeners \ {p}
    /\ pendingDiscover' = pendingDiscover \ {p}
    /\ onDisconnect
    /\ UNCHANGED <<pendingConnect, dataListeners, subscribed, pendingTimers, pendingRssi>>
    /\ UNCHANGED droneVars

updateRssi ==
    /\ network # NULL
    /\ pendingRssi' = IF peripheral = NO_PERIPHERAL THEN pendingRssi ELSE pendingRssi + 1
    /\ Did("updateRssi", <<>>, <<>>, <<>>, FALSE)
    /\ UNCHANGED adapterVars
    /\ UNCHANGED <<scanning, link, pendingConnect, pendingDiscover, disconnectListeners,
                   dataListeners, subscribed, pendingTimers>>
    /\ UNCHANGED droneVars

\* The callback of peripheral.updateRssi as it would be if it emitted the
\* event whatever the outcome of the query.
RssiCallbackAlways(error, rssi) ==
    /\ pendingRssi > 0
    /\ pendingRssi' = pendingRssi - 1
    /\ Did("rssiCallback", <<error, rssi>>, <<>>, <<Event("rssiUpdate", rssi)>>, FALSE)
    /\ UNCHANGED adapterVars
    /\ UNCHANGED <<scanning, link, pendingConnect, pendingDiscover, disconnectListeners,
                   dataListeners, subscribed, pendingTimers>>
    /\ UNCHANGED droneVars

\* The callback of peripheral.updateRssi.
RssiCallback(error, rssi) ==
    /\ pendingRssi > 0
    /\ pendingRssi' = pendingRssi - 1
    /\ Did("rssiCallback", <<error, rssi>>, <<>>,
           IF error THEN <<>> ELSE <<Event("rssiUpdate", rssi)>>, FALSE)
    /\ UNCHANGED adapterVars
    /\ UNCHANGED <<scanning, link, pendingConnect, pendingDiscover, disconnectListeners,
                   dataListeners, subscribed, pendingTimers>>
    /\ UNCHANGED droneVars

(***************************************************************************)
(* Inbound: decodePacket                                                   *)
(***************************************************************************)
\* data.readUInt8(offset); the caller checks CanRead first.
ReadUInt8(data, offset) == data[offset + 1]

\* A read of n bytes at the offset stays inside the buffer (it raises otherwise).
CanRead(data, offset, n) == offset + n <= Len(data)

ReadUInt16LE(data, offset) == data[offset + 1] + 256 * data[offset + 2]

\* data.readFloatLE(offset), as the binary32 bit pattern read.
ReadFloatLE(data, offset) ==
    data[offset + 1] + 256 * data[offset + 2] + 65536 * data[offset + 3]
        + 16777216 * data[offset + 4]

\* array[index] as it would be if the index counted from one.
LookupFromOne(array, index) ==
    IF index >= 1 /\ index <= Len(array) THEN array[index] ELSE UNDEFINED

\* array[index] of JavaScript: undefined beyond the end.
Lookup(array, index) == IF index < Len(array) THEN array[index + 1] ELSE UNDEFINED

\* What decodePacket leaves behind.
Outcome(battery, flight, alert, emitted, threw) ==
    [batteryLevel |-> battery, flightStatus |-> flight, alertStatus |-> alert,
     events |-> emitted, raised |-> threw]

Ignored == Outcome(batteryLevel, flightStatus, alertStatus, <<>>, FALSE)

Threw == Outcome(batteryLevel, flightStatus, alertStatus, <<>>, TRUE)

\* case 0 of switch (project) as it would be if the battery case also cleared
\* the alert.
DecodeCommonClearingAlert(data, msgClass, commandKey) ==
    IF msgClass = 5 /\ commandKey = 1
    THEN IF ~CanRead(data, 6, 1) THEN Threw
         ELSE Outcome(ReadUInt8(data, 6), flightStatus, ALERT_STATE_CHANGED[1],
                      <<Event("batteryStatusChange", ReadUInt8(data, 6))>>, FALSE)
    ELSE Ignored

\* The battery case as it would be if it emitted this.batteryLevel before
\* assigning it.
DecodeCommonEmittingFirst(data, msgClass, commandKey) ==
    IF msgClass = 5 /\ commandKey = 1
    THEN IF ~CanRead(data, 6, 1) THEN Threw
         ELSE Outcome(ReadUInt8(data, 6), flightStatus, alertStatus,
                      <<Event("batteryStatusChange", batteryLevel)>>, FALSE)
    ELSE Ignored

\* case 0 (COMMON) of switch (project)
DecodeCommon(data, msgClass, commandKey) ==
    IF msgClass = 5 /\ commandKey = 1
    THEN IF ~CanRead(data, 6, 1) THEN Threw
         ELSE Outcome(ReadUInt8(data, 6), flightStatus, alertStatus,
                      <<Event("batteryStatusChange", ReadUInt8(data, 6))>>, FALSE)
    ELSE Ignored

\* case 18 (NavigationDataState) of switch (msgClass)
DecodeNavigation(data, commandKey) ==
    IF commandKey = 0
    THEN IF ~CanRead(data, 18, 2) THEN Threw
         ELSE Outcome(batteryLevel, flightStatus, alertStatus,
                      <<Event("dronePositionChange",
                              [x |-> ReadFloatLE(data, 6), y |-> ReadFloatLE(data, 10),
                               z |-> ReadUInt16LE(data, 14), psi |-> ReadUInt16LE(data, 16),
                               ts |-> ReadUInt16LE(data, 18)])>>, FALSE)
    ELSE IF commandKey = 1
    THEN IF ~CanRead(data, 18, 2) THEN Threw
         ELSE Outcome(batteryLevel, flightStatus, alertStatus,
                      <<Event("droneSpeedChange",
                              [x |-> ReadFloatLE(data, 6), y |-> ReadFloatLE(data, 10),
                               z |-> ReadFloatLE(data, 14),
                               ts |-> ReadUInt16LE(data, 18)])>>, FALSE)
    ELSE Ignored

\* The piloting-state case as it would be if an index outside its table raised.
DecodePilotingStateChecked(data, commandKey) ==
    IF commandKey \in {1, 2, 3} /\ ~CanRead(data, 6, 1) THEN Threw
    ELSE IF commandKey = 1
    THEN LET status == Lookup(FLIGHT_STATUSES, ReadUInt8(data, 6))
         IN  IF status = UNDEFINED THEN Threw
             ELSE Outcome(batteryLevel, status, alertStatus,
                          <<Event("flightStatusChange", status)>>, FALSE)
    ELSE IF commandKey = 2
    THEN LET alert == Lookup(ALERT_STATE_CHANGED, ReadUInt8(data, 6))
         IN  IF alert = UNDEFINED THEN Threw
             ELSE Outcome(batteryLevel, flightStatus, alert,
                          <<Event("alertStateChange", alert)>>, FALSE)
    ELSE Ignored

\* case 3 (Piloting state) of switch (msgClass)
DecodePilotingState(data, commandKey) ==
    IF commandKey \in {1, 2, 3} /\ ~CanRead(data, 6, 1) THEN Threw
    ELSE IF commandKey = 1
    THEN LET status == Lookup(FLIGHT_STATUSES, ReadUInt8(data, 6))
         IN  Outcome(batteryLevel, status, alertStatus,
                     <<Event("flightStatusChange", status)>>, FALSE)
    ELSE IF commandKey = 2
    THEN LET alert == Lookup(ALERT_STATE_CHANGED, ReadUInt8(data, 6))
         IN  Outcome(batteryLevel, flightStatus, alert,
                     <<Event("alertStateChange", alert)>>, FALSE)
    ELSE Ignored

\* cases 5, 7 and 9 of switch (msgClass): the frame is only read for the log line.
DecodeSettingsState(data, msgClass, commandKey) ==
    IF msgClass \in {5, 9} /\ commandKey \in {0, 1}
    THEN IF CanRead(data, 14, 4) THEN Ignored ELSE Threw
    ELSE IF msgClass = 7 /\ commandKey = 1
    THEN IF CanRead(data, 7, 1) THEN Ignored ELSE Threw
    ELSE Ignored

\* case 2 of switch (project) as it would be if an unknown class were fatal.
DecodeMiniDroneStrict(data, msgClass, commandKey) ==
    IF msgClass = 18 THEN DecodeNavigation(data, commandKey)
    ELSE IF msgClass = 3 THEN DecodePilotingState(data, commandKey)
    ELSE IF msgClass \in {5, 7, 9} THEN DecodeSettingsState(data, msgClass, commandKey)
    ELSE Threw

\* case 2 (MINIDRONE) of switch (project)
DecodeMiniDrone(data, msgClass, commandKey) ==
    IF msgClass = 18 THEN DecodeNavigation(data, commandKey)
    ELSE IF msgClass = 3 THEN DecodePilotingState(data, commandKey)
    ELSE IF msgClass \in {5, 7, 9} THEN DecodeSettingsState(data, msgClass, commandKey)
    ELSE Ignored

\* switch (dataType): the line each case logs; only the default logs one.
DataTypeLog(dataType) ==
    IF dataType \in {1, 2, 3, 4} THEN <<>> ELSE <<"DataType missing", dataType>>

\* decodePacket as it would be if a frame of an unknown dataType were dropped.
decodePacketGated(data) ==
    IF ~CanRead(data, 4, 1) THEN Threw
    ELSE LET dataType == ReadUInt8(data, 0)
             project == ReadUInt8(data, 2)
             msgClass == ReadUInt8(data, 3)
             commandKey == ReadUInt8(data, 4)
         IN  IF DataTypeLog(dataType) # <<>> THEN Ignored
             ELSE IF project = 0 THEN DecodeCommon(data, msgClass, commandKey)
             ELSE IF project = 2 THEN DecodeMiniDrone(data, msgClass, commandKey)
             ELSE Ignored

\* decodePacket(data): the five header reads, the switch on dataType (log lines
\* only) and the switch on project.
decodePacket(data) ==
    IF ~CanRead(data, 4, 1) THEN Threw
    ELSE LET dataType == ReadUInt8(data, 0)
             logged == DataTypeLog(dataType)
             project == ReadUInt8(data, 2)
             msgClass == ReadUInt8(data, 3)
             commandKey == ReadUInt8(data, 4)
         IN  IF project = 0 THEN DecodeCommon(data, msgClass, commandKey)
             ELSE IF project = 2 THEN DecodeMiniDrone(data, msgClass, commandKey)
             ELSE Ignored

\* A data event of the characteristic `key` of a connected peripheral, handled
\* by the listener setupPeripheral registered.
OnRXCommand(op, key, data) ==
    LET out == decodePacket(data)
    IN  /\ \E l \in dataListeners : l.uuid = key /\ l.p \in link
        /\ batteryLevel' = out.batteryLevel
        /\ flightStatus' = out.flightStatus
        /\ alertStatus' = out.alertStatus
        /\ Did(op, data, <<>>, out.events, out.raised)
        /\ UNCHANGED <<connected, peripheral, characteristics, steps, flightParams>>
        /\ UNCHANGED nobleVars
        /\ UNCHANGED droneVars

onRXCommandWithACK(data) == OnRXCommand("onRXCommandWithACK", RX_COMMAND_WITH_ACK, data)

onRXCommandNoACK(data) == OnRXCommand("onRXCommandNoACK", RX_COMMAND_NO_ACK, data)

(***************************************************************************)
(* Drone                                                                   *)
(***************************************************************************)
\* Drone#connect
DroneConnect ==
    /\ network' = ADAPTER
    /\ Did("connect", <<>>, <<>>, <<>>, FALSE)
    /\ UNCHANGED adapterVars
    /\ UNCHANGED nobleVars
    /\ UNCHANGED droneFlightParams

\* Object.assign({}, this.flightParams, flightParams): the keys named win.
Merge(old, new) ==
    [k \in DOMAIN old |-> IF k \in DOMAIN new THEN new[k] ELSE old[k]]

setFlightParams(partial) ==
    /\ droneFlightParams' = Merge(droneFlightParams, partial)
    /\ Did("setFlightParams", <<>>, <<>>, <<>>, FALSE)
    /\ UNCHANGED adapterVars
    /\ UNCHANGED nobleVars
    /\ UNCHANGED network

\* this.network.flightStatusChange: a property no code of the adapter assigns.
network_flightStatusChange == UNDEFINED

Truthy(v) == v \notin {UNDEFINED, NULL}

\* Drone#isFlying as it would be without the status taking off.
isFlyingOffTheGround ==
    IF network = NULL THEN FALSE
    ELSE flightStatus \in {"hovering", "flying", "rolling"}

\* Drone#isFlying
isFlying ==
    IF network = NULL THEN FALSE
    ELSE flightStatus \in {"hovering", "flying", "rolling", "taking off"}

\* Drone#takeoffOrLand: this.isFlying() ? this.land() : this.takeOff(), which
\* call this.network.writeLand() and this.network.writeTakeoff(); with no
\* network the call on null raises.
takeoffOrLand ==
    IF network = NULL
    THEN /\ Did("takeoffOrLand", <<>>, <<>>, <<>>, TRUE)
         /\ UNCHANGED adapterVars
         /\ UNCHANGED nobleVars
         /\ UNCHANGED droneVars
    ELSE IF isFlying THEN writeLand ELSE writeTakeoff

\* Drone#eventLoop, one tick of setInterval.
eventLoop ==
    IF network = NULL \/ ~Truthy(network_flightStatusChange)
    THEN /\ Did("eventLoop", <<>>, <<>>, <<>>, FALSE)
         /\ UNCHANGED adapterVars
         /\ UNCHANGED nobleVars
         /\ UNCHANGED droneVars
    ELSE WriteFlightParamsBy("eventLoop", droneFlightParams)

(***************************************************************************)
(* Inputs and bounds of the specifications                                 *)
(***************************************************************************)
\* Spec takes a send while the three counters add up to less than the bound.
MaxSends == 1

MaxTimers == 1

MaxPendingRssi == 1

RECURSIVE Sum(_, _)
Sum(f, keys) ==
    IF keys = {} THEN 0
    ELSE LET k == CHOOSE x \in keys : TRUE IN f[k] + Sum(f, keys \ {k})

SendRoom == Sum(steps, StepKeys) < MaxSends

Nearby == {1, 2}

NobleStates == {"poweredOn", "poweredOff"}

FlightParamInputs == {[roll |-> 10, pitch |-> -5, yaw |-> 0, altitude |-> 20]}

PartialParams == {[pitch |-> -5, altitude |-> 20]}

LimitValues == {5}

AnimationInputs == {"flipBack", "barrelRoll"}

RssiValues == {-60}

\* An inbound frame of len bytes: the five header bytes, byte 5, the payload
\* byte at offset 6 and zeroes up to 20 bytes.
Frame(dataType, step, project, msgClass, commandKey, b6, len) ==
    SubSeq(<<dataType, step, project, msgClass, commandKey, 0, b6>> \o ZeroBuffer(13),
           1, len)

\* battery 50 %, flight status hovering, alert user, an unknown triple.
SpecFrames ==
    {Frame(2, 1, 0, 5, 1, 50, 7), Frame(4, 1, 2, 3, 1, 2, 7),
     Frame(4, 2, 2, 3, 2, 1, 7), Frame(2, 3, 3, 0, 0, 0, 5)}

Sends ==
    \/ writeTrim
    \/ writeTakeoff
    \/ writeLand
    \/ writeEmergency
    \/ writeTakePicture
    \/ \E a \in AnimationInputs : writeAnimation(a)
    \/ \E fp \in FlightParamInputs : writeFlightParams(fp)
    \/ \E v \in LimitValues : writeMaxAltitude(v)
    \/ \E v \in LimitValues : writeMaxTilt(v)
    \/ \E v \in LimitValues : writeMaxVerticalSpeed(v)
    \/ \E v \in LimitValues : writeMaxRotationSpeed(v)

LifeCycle ==
    \/ \E state \in NobleStates : onNobleStateChange(state)
    \/ scanning /\ \E p \in Nearby : onPeripheralDiscovery(p)
    \/ \E p \in Nearby, error \in BOOLEAN : ConnectCallback(p, error)
    \/ \E q \in Nearby, err \in BOOLEAN : pendingTimers < MaxTimers /\ DiscoverCallback(q, err)
    \/ ConnectedTimer
    \/ \E p \in Nearby : PeripheralDisconnect(p)

Rssi ==
    \/ pendingRssi < MaxPendingRssi /\ updateRssi
    \/ \E error \in BOOLEAN, rssi \in RssiValues : RssiCallback(error, rssi)

Inbound ==
    \/ \E data \in SpecFrames : onRXCommandWithACK(data)
    \/ \E data \in SpecFrames : onRXCommandNoACK(data)

\* The adapter under every handler and call it has, constructed by Drone#connect.
Next ==
    \/ SendRoom /\ Sends
    \/ LifeCycle
    \/ Rssi
    \/ Inbound
    \/ network = NULL /\ DroneConnect

Spec == Init /\ [][Next]_vars

\* The way to a connected drone: power on, discovery of the Mambo, connect,
\* characteristic discovery, the delayed connected event.
Attach ==
    \/ network = NULL /\ DroneConnect
    \/ ~scanning /\ onNobleStateChange("poweredOn")
    \/ scanning /\ onPeripheralDiscovery(1)
    \/ ConnectCallback(1, FALSE)
    \/ pendingTimers < MaxTimers /\ DiscoverCallback(1, FALSE)
    \/ ConnectedTimer

\* The sends of a connected, a never connected and a disconnected adapter.
MaxSendsDeep == 3

NextSend ==
    \/ Attach
    \/ PeripheralDisconnect(1)
    \/ Sum(steps, StepKeys) < MaxSendsDeep /\ Sends

SpecSend == Init /\ [][NextSend]_vars

\* The Drone facade over the adapter.
NextDrone ==
    \/ Attach
    \/ PeripheralDisconnect(1)
    \/ Inbound
    \/ \E partial \in PartialParams : setFlightParams(partial)
    \/ eventLoop

SpecDrone == Init /\ [][NextDrone]_vars

\* A connected adapter sending on one channel at a time, as far as the counter
\* of that channel goes round.
OnlyChannel(uuid) == \A k \in StepKeys \ {uuid} : steps[k] = 0

NextRun ==
    \/ Attach
    \/ connected /\ OnlyChannel(COMMAND_KEY) /\ writeTakeoff
    \/ connected /\ OnlyChannel(EMERGENCY_KEY) /\ writeEmergency
    \/ connected /\ OnlyChannel(FLIGHT_PARAMS_KEY)
         /\ \E fp \in FlightParamInputs : writeFlightParams(fp)

SpecRun == Init /\ [][NextRun]_vars

\* An adapter that never finds a drone, asked to send again and again.
MaxOffline == 32769

NextOffline ==
    \/ network = NULL /\ DroneConnect
    \/ steps[FLIGHT_PARAMS_KEY] < MaxOffline
         /\ \E fp \in FlightParamInputs : writeFlightParams(fp)
    \/ steps[FLIGHT_PARAMS_KEY] < MaxOffline
         /\ \E value \in LimitValues : writeMaxAltitude(value)

SpecOffline == Init /\ [][NextOffline]_vars

\* A connected or unconnected adapter asked to write flight parameters over
\* the range the Drone accepts.
MaxFrameSends == 2

FrameParams ==
    {[roll |-> r, pitch |-> p, yaw |-> y, altitude |-> a] :
        r \in {-100, 10, 100}, p \in {-100, -5, 100},
        y \in {-100, 0, 100}, a \in {-100, 20, 100}}

NextFrame ==
    \/ Attach
    \/ steps[FLIGHT_PARAMS_KEY] < MaxFrameSends
         /\ \E fp \in FrameParams : writeFlightParams(fp)

SpecFrame == Init /\ [][NextFrame]_vars

\* A connected adapter receiving, on the characteristic the telemetry comes on,
\* frames of every routing: known and unknown projects, classes and commands,
\* short and long.
DecodeFrames ==
    {Frame(4, 1, project, msgClass, commandKey, b6, len) :
        project \in {0, 2, 3}, msgClass \in {3, 4, 5, 18}, commandKey \in {1, 2},
        b6 \in {1, 200}, len \in {5, 20}}

NextDecode ==
    \/ Attach
    \/ \E data \in DecodeFrames : onRXCommandNoACK(data)

SpecDecode == Init /\ [][NextDecode]_vars

\* A connected adapter receiving piloting-state frames of every enum index,
\* one past the end of each table included.
StatusFrames ==
    {Frame(4, 1, 2, 3, 1, i, 7) : i \in 0..8} \cup {Frame(4, 1, 2, 3, 2, i, 7) : i \in 0..5}

NextStatus ==
    \/ Attach
    \/ PeripheralDisconnect(1)
    \/ \E data \in StatusFrames : onRXCommandWithACK(data)
    \/ \E data \in StatusFrames : onRXCommandNoACK(data)

SpecStatus == Init /\ [][NextStatus]_vars

\* An adapter scanning among every kind of candidate, and validatePeripheral
\* called with every candidate on adapters constructed with each filter.
Candidates == 1..9

DroneFilters == {<<>>, <<"^","R","S","_">>, <<"a","m","b","o">>}

NextValidate ==
    \/ network = NULL /\ DroneConnect
    \/ ~scanning /\ onNobleStateChange("poweredOn")
    \/ scanning /\ \E p \in Candidates : onPeripheralDiscovery(p)
    \/ \E p \in Candidates, droneFilter \in DroneFilters :
           validatePeripheralCall(p, droneFilter)

SpecValidate == Init /\ [][NextValidate]_vars

\* A connected adapter receiving every payload decodePacket has a case for,
\* under every kind of dataType byte.
TelemetryTriples ==
    {<<0, 5, 1>>, <<2, 3, 1>>, <<2, 3, 2>>, <<2, 18, 0>>, <<2, 18, 1>>, <<2, 5, 0>>,
     <<2, 5, 1>>, <<2, 7, 1>>, <<2, 9, 0>>, <<2, 9, 1>>}

DataTypes == {0, 1, 2, 3, 4, 200}

TelemetryFrames ==
    {Frame(dataType, 1, t[1], t[2], t[3], 1, 20) :
        dataType \in DataTypes, t \in TelemetryTriples}

NextTelemetry ==
    \/ Attach
    \/ \E data \in TelemetryFrames : onRXCommandNoACK(data)

SpecTelemetry == Init /\ [][NextTelemetry]_vars

\* A connected adapter receiving a few payloads under a dataType the switch has
\* a case for and under one it has none for.
DataTypeFrames ==
    {Frame(dataType, 1, t[1], t[2], t[3], 1, 20) :
        dataType \in {2, 200},
        t \in {<<0, 5, 1>>, <<2, 3, 1>>, <<2, 18, 1>>, <<3, 0, 0>>}}

NextDataType ==
    \/ Attach
    \/ \E data \in DataTypeFrames : onRXCommandNoACK(data)

SpecDataType == Init /\ [][NextDataType]_vars

\* Runs of flight-params sends on a connected adapter through the reset of the
\* counter, with two parameter sets and take-offs on the command channel between.
MaxPairCommands == 2

PairParams ==
    {[roll |-> 10, pitch |-> -5, yaw |-> 0, altitude |-> 20],
     [roll |-> -100, pitch |-> 100, yaw |-> 0, altitude |-> 0]}

NextPair ==
    \/ Attach
    \/ connected /\ \E fp \in PairParams : writeFlightParams(fp)
    \/ connected /\ steps[COMMAND_KEY] < MaxPairCommands /\ writeTakeoff

SpecPair == Init /\ [][NextPair]_vars

\* Interleavings of flight-loop ticks, pilot commands and inbound callbacks.
MaxInterleaved == 2

NextInterleave ==
    \/ Attach
    \/ Sum(steps, StepKeys) < MaxInterleaved /\ writeTakeoff
    \/ Sum(steps, StepKeys) < MaxInterleaved /\ writeEmergency
    \/ Sum(steps, StepKeys) < MaxInterleaved
         /\ \E fp \in FlightParamInputs : writeFlightParams(fp)
    \/ Sum(steps, StepKeys) < MaxInterleaved
         /\ \E v \in LimitValues : writeMaxAltitude(v)
    \/ Inbound
    \/ eventLoop

SpecInterleave == Init /\ [][NextInterleave]_vars

\* Two drones in range. noble delivers a discover event while it scans, and a
\* report already received may be delivered after stopScanning was called, that
\* is after a peripheral was selected.
Drones == {1, 4}

NextLate ==
    \/ network = NULL /\ DroneConnect
    \/ ~scanning /\ onNobleStateChange("poweredOn")
    \/ (scanning \/ peripheral # NO_PERIPHERAL) /\ \E p \in Drones : onPeripheralDiscovery(p)
    \/ \E p \in Drones : ConnectCallback(p, FALSE)
    \/ \E q \in Drones : pendingTimers < MaxTimers /\ DiscoverCallback(q, FALSE)
    \/ ConnectedTimer
    \/ \E p \in Drones : PeripheralDisconnect(p)
    \/ \E p \in Drones : LinkLost(p)
    \/ SendRoom /\ writeTakeoff

SpecLate == Init /\ [][NextLate]_vars

\* The toggle of Drone under every flight status a frame can leave.
MaxToggles == 2

ToggleFrames == {Frame(4, 1, 2, 3, 1, i, 7) : i \in 0..8}

NextToggle ==
    \/ Attach
    \/ PeripheralDisconnect(1)
    \/ \E data \in ToggleFrames : onRXCommandWithACK(data)
    \/ Sum(steps, StepKeys) < MaxToggles /\ takeoffOrLand

SpecToggle == Init /\ [][NextToggle]_vars

\* writeAnimation under the four names, a name that is none of them, and a
\* name objects inherit.
MaxAnimations == 2

AnimationNames ==
    {"flipFront", "flipBack", "flipRight", "flipLeft", "barrelRoll", "constructor"}

NextAnimate ==
    \/ Attach
    \/ PeripheralDisconnect(1)
    \/ Sum(steps, StepKeys) < MaxAnimations
         /\ \E a \in AnimationNames : writeAnimation(a)

SpecAnimate == Init /\ [][NextAnimate]_vars

(***************************************************************************)
(* Claims                                                                  *)
(***************************************************************************)
\* The operations that build a frame, and the characteristic each hands it to.
CommandOps ==
    {"writeTrim", "writeTakeoff", "writeLand", "writeTakePicture", "writeAnimation"}

LimitOps ==
    {"writeMaxAltitude", "writeMaxTilt", "writeMaxVerticalSpeed", "writeMaxRotationSpeed"}

SendOps == CommandOps \cup LimitOps \cup {"writeFlightParams", "writeEmergency"}

TargetKey(op) ==
    IF op = "writeFlightParams" THEN FLIGHT_PARAMS_KEY
    ELSE IF op = "writeEmergency" THEN EMERGENCY_KEY
    ELSE COMMAND_KEY

\* The step byte of a frame written.
StepByte(w) == w.buffer[2]

RxOps == {"onRXCommandWithACK", "onRXCommandNoACK"}

\* The (project, class, command) triple of a frame of at least five bytes.
Triple(data) == <<data[3], data[4], data[5]>>

\* C1: on a connected adapter whose counters start at 0, each channel's frames
\* carry the step bytes 1, 2, ..., 255 and then 0: every frame carries the byte
\* after its predecessor's, 255 being followed by 0.
C1_StepBytesRunThroughZero ==
    [][(/\ writes # <<>>
        /\ writes' # <<>>
        /\ writes'[1].uuid = writes[1].uuid)
       => StepByte(writes'[1]) = (StepByte(writes[1]) + 1) % 256]_vars

\* C2: each of the three step counters is in 0..255 in every reachable state.
C2_StepsInByte == \A k \in StepKeys : steps[k] \in 0..255

\* C7: with no characteristics held, a send returns without raising and writes
\* to no characteristic.
C7_SendWithoutCharacteristics ==
    (characteristics = {} /\ lastOp \in SendOps) => (~raised /\ writes = <<>>)

\* C3: while no counter wraps, two frames written one after the other to the
\* same characteristic never carry the same step byte (a case of: between two
\* wrap-arounds no two frames on one characteristic share a step byte).
C3_NoDuplicateStep ==
    [][(/\ writes # <<>>
        /\ writes' # <<>>
        /\ writes'[1].uuid = writes[1].uuid
        /\ writes'[1].p = writes[1].p
        /\ \A k \in StepKeys : steps'[k] >= steps[k]
        /\ StepByte(writes'[1]) # 0)
       => StepByte(writes'[1]) # StepByte(writes[1])]_vars

\* C4: every send that builds a frame increments by one the counter of the
\* channel whose characteristic the frame goes to and leaves the other two
\* counters as they were.
C4_SendIncrementsOwnChannel ==
    [][(lastOp' \in SendOps /\ ~(lastOp' = "writeAnimation" /\ steps' = steps))
       => steps' = [steps EXCEPT ![TargetKey(lastOp')] = @ + 1]]_vars

\* A value as the two bytes of a little-endian int16, and as one byte.
Int16LE(v) == <<((v + 65536) % 65536) % 256, ((v + 65536) % 65536) \div 256>>

Int8(v) == (v + 256) % 256

\* C5 as stated: the frame is 2, step, 2, 0, 2, 0, 1, then roll, pitch, yaw and
\* altitude each as a little-endian int16, then four zero bytes.
C5_ParamsAsInt16 ==
    (lastOp = "writeFlightParams" /\ writes # <<>>)
    => writes[1].buffer =
         <<2, Mask8(StepByte(writes[1])), 2, 0, 2, 0, 1>>
         \o Int16LE(flightParams.roll) \o Int16LE(flightParams.pitch)
         \o Int16LE(flightParams.yaw) \o Int16LE(flightParams.altitude)
         \o <<0, 0, 0, 0>>

\* C5: writeFlightParams writes to the flight-params characteristic a 19-byte
\* frame 2, step, 2, 0, 2, 0, 1, then roll, pitch, yaw and altitude each as one
\* two's-complement byte, then eight zero bytes, for all values in -100..100;
\* the step byte is the low byte of the counter the call incremented (1 on a
\* fresh adapter).
C5_ParamsAsInt8 ==
    (lastOp = "writeFlightParams" /\ writes # <<>>)
    => /\ Len(writes) = 1
       /\ writes[1].uuid = FLIGHT_PARAMS_KEY
       /\ writes[1].buffer =
            <<2, StepByte(writes[1]), 2, 0, 2, 0, 1,
              Int8(flightParams.roll), Int8(flightParams.pitch),
              Int8(flightParams.yaw), Int8(flightParams.altitude)>>
            \o ZeroBuffer(8)
       /\ StepByte(writes[1]) \in 0..255
       /\ steps[FLIGHT_PARAMS_KEY] # 0
            => StepByte(writes[1]) = Mask8(steps[FLIGHT_PARAMS_KEY])

\* The frame of the first writeFlightParams({roll: 10, pitch: -5, yaw: 0,
\* altitude: 20}) of a connected adapter.
C5_Witness ==
    /\ lastOp = "writeFlightParams"
    /\ steps[FLIGHT_PARAMS_KEY] = 1
    /\ lastArg = <<10, -5, 0, 20>>
    /\ writes # <<>>
    /\ writes[1].buffer = <<2, 1, 2, 0, 2, 0, 1, 10, 251, 0, 20, 0, 0, 0, 0, 0, 0, 0, 0>>

\* C6: a tick of the flight loop with an adapter that holds characteristics and
\* has decoded a flight status sends exactly one flight-params frame, carrying
\* the parameters last set on the Drone.
C6_TickSendsFlightParams ==
    (lastOp = "eventLoop" /\ network # NULL /\ characteristics # {}
        /\ flightStatus # NULL)
    => /\ Len(writes) = 1
       /\ writes[1].uuid = FLIGHT_PARAMS_KEY
       /\ writes[1].buffer = FlightParamsBuffer(StepByte(writes[1]), droneFlightParams)

\* C8: decoding a battery frame (0,5,1) that has a byte 6 sets batteryLevel to
\* that byte, emits one batteryStatusChange with it and no other event, and
\* leaves flightStatus, alertStatus, the step counters and the connection state
\* as they were.
C8_BatteryFrame ==
    [][(lastOp' \in RxOps /\ Len(lastArg') >= 7 /\ Triple(lastArg') = <<0, 5, 1>>)
       => /\ batteryLevel' = lastArg'[7]
          /\ events' = <<Event("batteryStatusChange", lastArg'[7])>>
          /\ ~raised'
          /\ UNCHANGED <<flightStatus, alertStatus, steps, connected, peripheral,
                         characteristics>>]_vars

\* A battery frame decoded after a flight status and an alert were.
C8_Witness ==
    /\ lastOp \in RxOps
    /\ Len(lastArg) >= 7
    /\ Triple(lastArg) = <<0, 5, 1>>
    /\ batteryLevel = 200
    /\ flightStatus = "taking off"
    /\ alertStatus = "user"
    /\ Len(events) = 1

\* The triples decodePacket has a case for.
RecognizedTriples ==
    {<<0, 5, 1>>, <<0, 30, 0>>, <<2, 18, 0>>, <<2, 18, 1>>, <<2, 3, 1>>, <<2, 3, 2>>,
     <<2, 3, 3>>, <<2, 5, 0>>, <<2, 5, 1>>, <<2, 7, 1>>, <<2, 9, 0>>, <<2, 9, 1>>}

\* C9: decoding a frame of five bytes or more whose triple is not a recognized
\* one does not raise, emits nothing, leaves batteryLevel, flightStatus and
\* alertStatus as they were and leaves the data listeners in place for the
\* frames that follow.
C9_UnknownTriple ==
    [][(lastOp' \in RxOps /\ Len(lastArg') >= 5 /\ Triple(lastArg') \notin RecognizedTriples)
       => /\ ~raised'
          /\ events' = <<>>
          /\ UNCHANGED <<batteryLevel, flightStatus, alertStatus>>
          /\ UNCHANGED <<dataListeners, link, subscribed>>]_vars

\* A frame of an unknown MiniDrone class decoded after telemetry was.
C9_Witness ==
    /\ lastOp \in RxOps
    /\ Len(lastArg) >= 5
    /\ Triple(lastArg) = <<2, 4, 1>>
    /\ batteryLevel = 200
    /\ flightStatus = "taking off"
    /\ ~raised
    /\ events = <<>>

\* C10: flightStatus changes only in the decoding of a frame with triple
\* (2,3,1) and alertStatus only in the decoding of a frame with triple (2,3,2).
C10_StatusChangesOnlyByDecode ==
    [][/\ flightStatus' # flightStatus
          => (lastOp' \in RxOps /\ Len(lastArg') >= 5 /\ Triple(lastArg') = <<2, 3, 1>>)
       /\ alertStatus' # alertStatus
          => (lastOp' \in RxOps /\ Len(lastArg') >= 5 /\ Triple(lastArg') = <<2, 3, 2>>)]_vars

\* Both statuses decoded, then a send, then the disconnect handled.
C10_Witness ==
    /\ flightStatus = "hovering"
    /\ alertStatus = "user"
    /\ lastOp = "onDisconnect"
    /\ Sum(steps, StepKeys) > 0

\* The names of the flight statuses, by index.
FlightStatusName(i) ==
    CASE i = 0 -> "landed"
      [] i = 1 -> "taking off"
      [] i = 2 -> "hovering"
      [] i = 3 -> "flying"
      [] i = 4 -> "landing"
      [] i = 5 -> "emergency"
      [] i = 6 -> "rolling"
      [] i = 7 -> "initializing"

\* C11: after the decoding of a flight-status frame (2,3,1) whose byte 6 is i in
\* 0..7, flightStatus is the i-th flight-status name and the one event emitted
\* is a flightStatusChange carrying that name.
C11_FlightStatusNames ==
    (/\ lastOp \in RxOps
     /\ Len(lastArg) >= 7
     /\ Triple(lastArg) = <<2, 3, 1>>
     /\ lastArg[7] \in 0..7)
    => /\ flightStatus = FlightStatusName(lastArg[7])
       /\ events = <<Event("flightStatusChange", FlightStatusName(lastArg[7]))>>
       /\ ~raised

\* Index 7 decoded to initializing.
C11_Witness ==
    /\ lastOp \in RxOps
    /\ Len(lastArg) >= 7
    /\ Triple(lastArg) = <<2, 3, 1>>
    /\ lastArg[7] = 7
    /\ flightStatus = "initializing"
    /\ events = <<Event("flightStatusChange", "initializing")>>

\* A name that starts with one of the drone prefixes.
HasDronePrefix(name) ==
    \E i \in 1..Len(DRONE_PREFIXES) : StartsWith(name, DRONE_PREFIXES[i])

\* Manufacturer data that is one of the listed serials.
SerialListed(m) ==
    /\ m.kind = "string"
    /\ m.hex \in {"4300cf1900090100", "4300cf1909090100", "4300cf1907090100"}

\* C12: with an empty droneFilter, validatePeripheral returns true exactly for
\* the candidates whose name starts with a drone prefix or whose manufacturer
\* data is a listed serial.
C12_PrefixOrSerial ==
    (lastOp = "validatePeripheral" /\ lastArg[2] = <<>>)
    => returned = <<HasDronePrefix(LocalName(lastArg[1]))
                    \/ SerialListed(ManufacturerData(lastArg[1]))>>

C14_DataTypeIgnored ==
    [][lastOp' \in RxOps
       => \A dataType \in 0..255 :
            decodePacket([lastArg' EXCEPT ![1] = dataType])
              = Outcome(batteryLevel', flightStatus', alertStatus', events', raised')]_vars

\* A frame whose dataType is none of 1..4, decoded to an event.
C14_Witness ==
    /\ lastOp \in RxOps
    /\ lastArg[1] = 200
    /\ Triple(lastArg) = <<2, 3, 1>>
    /\ flightStatus = "taking off"
    /\ events # <<>>

\* The event kind of each payload.
EventKind(t) ==
    CASE t = <<0, 5, 1>> -> "batteryStatusChange"
      [] t = <<2, 3, 1>> -> "flightStatusChange"
      [] t = <<2, 3, 2>> -> "alertStateChange"
      [] t = <<2, 18, 0>> -> "dronePositionChange"
      [] t = <<2, 18, 1>> -> "droneSpeedChange"
      [] t = <<2, 7, 1>> -> "pictureStateChange"
      [] t = <<2, 5, 0>> -> "maxVerticalSpeedChange"
      [] t = <<2, 5, 1>> -> "maxRotationSpeedChange"
      [] t = <<2, 9, 0>> -> "maxAltitudeChange"
      [] t = <<2, 9, 1>> -> "maxTiltChange"

\* C15: after the decoding of a 20-byte frame of one of the ten payloads with a
\* telemetry event kind, exactly one event was emitted, and it is of that kind.
C15_OneEventPerPayload ==
    (lastOp \in RxOps /\ Len(lastArg) >= 20 /\ Triple(lastArg) \in TelemetryTriples)
    => /\ Len(events) = 1
       /\ events[1].name = EventKind(Triple(lastArg))
       /\ ~raised

\* C16: after a connect callback or a discovery callback that reports an error,
\* the adapter is not connected and noble is scanning again.
C16_ErrorRestartsScanning ==
    (lastOp \in {"connectCallback", "discoverCallback"} /\ lastArg[2])
    => (~connected /\ scanning)

\* C17: when the disconnect event of the peripheral has been handled, the
\* adapter holds no characteristics and no peripheral, is not connected, has
\* emitted one disconnected event and nothing else, and noble is scanning.
C17_DisconnectHandled ==
    lastOp = "onDisconnect"
    => /\ characteristics = {}
       /\ peripheral = NO_PERIPHERAL
       /\ ~connected
       /\ scanning
       /\ Len(events) = 1
       /\ events[1].name = "disconnected"
       /\ writes = <<>>
       /\ ~raised

\* The disconnect of a peripheral whose characteristics had been discovered.
C17_Witness ==
    /\ lastOp = "onDisconnect"
    /\ dataListeners # {}
    /\ peripheral = NO_PERIPHERAL
    /\ scanning
    /\ Len(events) = 1

\* C18: once flight parameters were set on the Drone, the flight-params frame
\* of the next tick on an adapter that holds characteristics and knows the
\* flight status carries the merged values: a key the call named has its new
\* value, a key it did not name has the value it had.
C18_NextFrameCarriesMerged ==
    (/\ lastOp = "eventLoop"
     /\ characteristics # {}
     /\ flightStatus # NULL
     /\ droneFlightParams = [roll |-> 0, pitch |-> -5, yaw |-> 0, altitude |-> 20])
    => /\ writes # <<>>
       /\ SubSeq(writes[1].buffer, 8, 11) = <<0, Int8(-5), 0, 20>>

\* The class and command bytes of the five plain commands.
ClassCommand(op) ==
    CASE op = "writeTrim" -> <<0, 0>>
      [] op = "writeTakeoff" -> <<0, 1>>
      [] op = "writeLand" -> <<0, 3>>
      [] op = "writeTakePicture" -> <<6, 1>>
      [] op = "writeEmergency" -> <<0, 4>>

PlainOps == {"writeTrim", "writeTakeoff", "writeLand", "writeTakePicture", "writeEmergency"}

\* C19: on an adapter that holds characteristics, trim, takeoff, land and
\* take-picture each write the one frame 2, step, 2, class, command, 0 to fa0b
\* with (class, command) (0,0), (0,1), (0,3), (6,1), emergency writes
\* 2, step, 2, 0, 4, 0 to fa0c, and flight params go to fa0a; step is the low
\* byte of the counter of the channel written to, incremented by the call.
C19_CommandFrames ==
    [][/\ (lastOp' \in PlainOps /\ characteristics # {})
          => /\ Len(writes') = 1
             /\ writes'[1].uuid = (IF lastOp' = "writeEmergency" THEN "fa0c" ELSE "fa0b")
             /\ writes'[1].buffer =
                  <<2, (steps[writes'[1].uuid] + 1) % 256, 2>>
                  \o ClassCommand(lastOp') \o <<0>>
       /\ (lastOp' = "writeFlightParams" /\ characteristics # {})
          => /\ Len(writes') = 1
             /\ writes'[1].uuid = "fa0a"
             /\ StepByte(writes'[1]) = (steps["fa0a"] + 1) % 256]_vars

\* The second frame of the command channel, a take-picture.
C19_Witness ==
    /\ lastOp = "writeTakePicture"
    /\ Len(writes) = 1
    /\ writes[1].uuid = "fa0b"
    /\ writes[1].buffer = <<2, 2, 2, 6, 1, 0>>

\* The class and command bytes of the four limit setters.
LimitClassCommand(op) ==
    CASE op = "writeMaxAltitude" -> <<8, 0>>
      [] op = "writeMaxTilt" -> <<8, 1>>
      [] op = "writeMaxVerticalSpeed" -> <<1, 0>>
      [] op = "writeMaxRotationSpeed" -> <<1, 1>>

\* C20: on an adapter that holds characteristics, each limit setter writes one
\* 19-byte frame to fa0b whose bytes 0..5 are 2, step, 2, class, command, 0 with
\* (class, command) (8,0), (8,1), (1,0), (1,1), step being the counter of the
\* command channel incremented, and whose four bytes after the value are zero.
C20_LimitFrames ==
    [][(lastOp' \in LimitOps /\ characteristics # {})
       => /\ Len(writes') = 1
          /\ writes'[1].uuid = "fa0b"
          /\ Len(writes'[1].buffer) = 19
          /\ SubSeq(writes'[1].buffer, 1, 6) =
               <<2, (steps["fa0b"] + 1) % 256, 2>> \o LimitClassCommand(lastOp') \o <<0>>
          /\ SubSeq(writes'[1].buffer, 11, 14) = <<0, 0, 0, 0>>]_vars

\* The ten identifiers the adapter subscribes to, as the specification lists them.
TenIdentifiers ==
    {"fb0f", "fb0e", "fb1b", "fb1c", "fd22", "fd23", "fd24", "fd52", "fd53", "fd54"}

\* Peripheral q has all ten identifiers subscribed and data listeners on exactly
\* the two inbound channels.
SetUp(q) ==
    /\ \A u \in TenIdentifiers : [p |-> q, uuid |-> u] \in subscribed
    /\ {l.uuid : l \in {m \in dataListeners : m.p = q}} = {"fb0e", "fb0f"}

\* C21: after a successful characteristic discovery the ten identifiers are
\* subscribed and data listeners are registered on exactly fb0e and fb0f, and
\* this is so before connected is true and before the connected event: the
\* discovery callback that succeeded leaves the peripheral set up without having
\* emitted the event, connected is true only of a peripheral that is set up, and
\* the connected event is emitted only once a peripheral is set up.
C21_SetUpBeforeConnected ==
    /\ (lastOp = "discoverCallback" /\ ~lastArg[2])
         => (SetUp(lastArg[1]) /\ events = <<>>)
    /\ connected => \A c \in characteristics : SetUp(c.p)
    /\ (lastOp = "connectedTimer" /\ events # <<>>) => \E q \in Nearby : SetUp(q)

\* The connected event is emitted for peripheral 1, which is still connected.
C21_Witness ==
    /\ lastOp = "connectedTimer"
    /\ events = <<Event("connected", UNDEFINED)>>
    /\ connected
    /\ characteristics # {}
    /\ SetUp(1)

\* C22: a flightParamChange event is emitted only by a writeFlightParams that
\* wrote a frame to the flight-params characteristic; a call made while no
\* characteristics are held emits none.
C22_ChangeOnlyWhenWritten ==
    (lastOp = "writeFlightParams"
       /\ \E i \in 1..Len(events) : events[i].name = "flightParamChange")
      => (Len(writes) = 1 /\ writes[1].uuid = "fa0a")

\* C23: in every reachable state batteryLevel is the initial unknown value or
\* an integer in 0..100, whatever bytes the decoded frames carry.
C23_BatteryInRange == batteryLevel = BATTERY_UNKNOWN \/ batteryLevel \in 0..100

\* The 19 bytes of a flight-params frame as a function of the counter before
\* the call and of the four parameters.
FrameOf(pre, params) ==
    <<2, (pre + 1) % 256, 2, 0, 2, 0, 1,
      Int8(params[1]), Int8(params[2]), Int8(params[3]), Int8(params[4])>>
    \o ZeroBuffer(8)

\* Two frames agree in every byte but the step byte.
SameButStep(b1, b2) ==
    /\ Len(b1) = Len(b2)
    /\ \A i \in 1..Len(b1) : i # 2 => b1[i] = b2[i]

\* A flight-params send that wrote a frame has run.
SentParams(op, w) == op = "writeFlightParams" /\ w # <<>>

CounterKey(op) ==
    IF op \in LimitOps \cup {"writeFlightParams", "eventLoop"} THEN FLIGHT_PARAMS_KEY
    ELSE TargetKey(op)

\* A step: counter k goes up by one from the value the previous handler left
\* (or is reset by write after the increment), the others are not incremented.
OneUpdate(k) ==
    /\ steps'[k] = steps[k] + 1 \/ (steps'[k] = 0 /\ steps[k] + 1 >= 255)
    /\ \A j \in StepKeys \ {k} : steps'[j] = steps[j] \/ (steps'[j] = 0 /\ steps[j] >= 255)

\* C25: in every interleaving of flight-loop ticks, pilot commands and inbound
\* callbacks each handler acts on the state the previous one left, whole: a
\* send increments its counter by one from the value left by the previous
\* handler and its frame carries that incremented value, so no two sends use the
\* same value (no update is lost); a send changes no decoded field, and a decode
\* changes no counter and no flight parameter and writes nothing.
C25_NoLostUpdate ==
    [][/\ lastOp' \in SendOps
            => /\ OneUpdate(CounterKey(lastOp'))
               /\ writes' # <<>>
                    => StepByte(writes'[1]) = (steps[CounterKey(lastOp')] + 1) % 256
               /\ UNCHANGED <<batteryLevel, flightStatus, alertStatus>>
       /\ lastOp' = "eventLoop"
            => /\ UNCHANGED steps \/ OneUpdate(FLIGHT_PARAMS_KEY)
               /\ UNCHANGED <<batteryLevel, flightStatus, alertStatus>>
       /\ lastOp' \in RxOps
            => (UNCHANGED <<steps, flightParams>> /\ writes' = <<>>)]_vars

\* A second take-off frame, sent after a battery frame was decoded.
C25_Witness ==
    /\ lastOp = "writeTakeoff"
    /\ steps[COMMAND_KEY] = 2
    /\ batteryLevel = 50
    /\ writes # <<>>
    /\ StepByte(writes[1]) = 2

\* C26: a send issues at most one write, without response, of the frame it
\* built to its characteristic; no other handler writes (no frame is queued for
\* a later tick or written again), and a send never writes again the frame the
\* previous handler wrote.
C26_AtMostOneWrite ==
    [][/\ Len(writes') <= 1
       /\ writes' # <<>>
            => /\ lastOp' \in SendOps
               /\ writes'[1].withoutResponse
               /\ writes'[1].uuid = TargetKey(lastOp')
               /\ StepByte(writes'[1]) = (steps[CounterKey(lastOp')] + 1) % 256
               /\ writes # <<>> => writes'[1] # writes[1]]_vars

\* An emergency frame written once, after a take-off frame.
C26_Witness ==
    /\ lastOp = "writeEmergency"
    /\ steps[COMMAND_KEY] = 1
    /\ Len(writes) = 1
    /\ writes[1].uuid = EMERGENCY_KEY
    /\ writes[1].withoutResponse

\* C27: updateRssi itself emits nothing and changes no adapter state, and asks
\* nothing of the peripheral when none is set; the callback of the query emits
\* one rssiUpdate event carrying the reported value when the query succeeded and
\* nothing when it failed, and changes no adapter state; no other handler emits
\* rssiUpdate.
C27_RssiOnlyOnSuccess ==
    [][/\ lastOp' = "updateRssi"
            => /\ events' = <<>>
               /\ UNCHANGED adapterVars
               /\ peripheral = NO_PERIPHERAL => pendingRssi' = pendingRssi
       /\ lastOp' = "rssiCallback"
            => /\ UNCHANGED adapterVars
               /\ events' = IF lastArg'[1] THEN <<>>
                             ELSE <<Event("rssiUpdate", lastArg'[2])>>
       /\ (\E i \in 1..Len(events') : events'[i].name = "rssiUpdate")
            => lastOp' = "rssiCallback"]_vars

\* The query succeeded: one rssiUpdate event carries the value reported.
C27_Witness ==
    /\ lastOp = "rssiCallback"
    /\ lastArg = <<FALSE, -60>>
    /\ events = <<Event("rssiUpdate", -60)>>

\* The query failed: no event.
C27_WitnessFailed ==
    /\ lastOp = "rssiCallback"
    /\ lastArg = <<TRUE, -60>>
    /\ events = <<>>

\* A frame of at least seven bytes with the given triple.
FrameOfTriple(data, triple) == Len(data) >= 7 /\ Triple(data) = triple

\* C28: the decoding of a flight-status frame whose byte 6 is outside 0..7, or
\* of an alert frame whose byte 6 is outside 0..4, does not raise; and the frames
\* decoded after one are decoded as ever: a flight-status frame with an index in
\* 0..7 that arrives while flightStatus is the undefined value such a frame left
\* sets the status of that index and does not raise.
C28_IndexOutsideTable ==
    [][lastOp' \in RxOps
       => /\ (FrameOfTriple(lastArg', <<2, 3, 1>>) /\ lastArg'[7] > 7) => ~raised'
          /\ (FrameOfTriple(lastArg', <<2, 3, 2>>) /\ lastArg'[7] > 4) => ~raised'
          /\ (/\ flightStatus = UNDEFINED \/ alertStatus = UNDEFINED
              /\ FrameOfTriple(lastArg', <<2, 3, 1>>)
              /\ lastArg'[7] \in 0..7)
              => /\ ~raised'
                 /\ flightStatus' = FlightStatusName(lastArg'[7])
                 /\ events' =
                      <<Event("flightStatusChange", FlightStatusName(lastArg'[7]))>>]_vars

\* A flight-status frame with index 8 was decoded without raising.
C28_Witness ==
    /\ lastOp \in RxOps
    /\ FrameOfTriple(lastArg, <<2, 3, 1>>)
    /\ lastArg[7] = 8
    /\ ~raised
    /\ connected

\* A flight-status frame decoded after an alert frame with index 5.
C28_WitnessAfter ==
    /\ lastOp \in RxOps
    /\ FrameOfTriple(lastArg, <<2, 3, 1>>)
    /\ lastArg[7] = 3
    /\ alertStatus = UNDEFINED
    /\ flightStatus = "flying"

\* C29: in every reachable state flightStatus is the initial unset value or one
\* of the eight flight-status names, and no decoding replaces one of the names
\* by a value that is not one of them.
C29_StatusKnown ==
    [][/\ flightStatus' \in {NULL} \cup {FLIGHT_STATUSES[i] : i \in 1..Len(FLIGHT_STATUSES)}
       /\ flightStatus \in {FlightStatusName(i) : i \in 0..7}
            => flightStatus' \in {FlightStatusName(i) : i \in 0..7} \cup {NULL}]_vars

\* C30: a send attempted while no characteristics are held writes nothing and
\* leaves the three step counters and the cached flight parameters as they were.
C30_SkippedSendChangesNothing ==
    [][(characteristics = {} /\ lastOp' \in SendOps)
       => (writes' = <<>> /\ UNCHANGED <<steps, flightParams>>)]_vars

\* C31: whenever the connected event is emitted the adapter is connected:
\* connected is true and characteristics are held.
C31_ConnectedWhenAnnounced ==
    (lastOp = "connectedTimer" /\ events = <<Event("connected", UNDEFINED)>>)
      => (connected /\ characteristics # {})

\* C32: in every reachable state connected implies that a peripheral is set and
\* that characteristics are held.
C32_ConnectedHasPeripheral ==
    connected => (peripheral # NO_PERIPHERAL /\ characteristics # {})

\* C33: once a peripheral is selected, a further discovery of a drone delivered
\* before a disconnect neither replaces it nor starts a second connect, and the
\* callback of a peripheral's connect starts the characteristic discovery of
\* that peripheral and of no other.
C33_OnePeripheral ==
    [][/\ (lastOp' = "onPeripheralDiscovery" /\ peripheral # NO_PERIPHERAL)
            => (peripheral' = peripheral /\ pendingConnect' = pendingConnect)
       /\ lastOp' = "connectCallback"
            => pendingDiscover' \ pendingDiscover \subseteq {lastArg'[1]}]_vars

\* C34: the handling of a disconnect leaves no characteristics; characteristics
\* are held again only when a characteristic discovery completes; a send made
\* while none are held writes nothing; and no frame is written to a
\* characteristic of a peripheral whose link is down.
C34_NoWriteAfterDisconnect ==
    [][/\ lastOp' = "onDisconnect" => characteristics' = {}
       /\ (characteristics = {} /\ characteristics' # {}) => lastOp' = "discoverCallback"
       /\ (characteristics = {} /\ lastOp' \in SendOps) => writes' = <<>>
       /\ writes' # <<>> => writes'[1].p \in link]_vars

\* A take-off asked of an adapter whose drone has disconnected writes nothing.
C34_Witness ==
    /\ lastOp = "writeTakeoff"
    /\ subscribed # {}
    /\ characteristics = {}
    /\ link = {}
    /\ writes = <<>>

\* The handlers of the connection life cycle.
LifeOps ==
    {"onNobleStateChange", "onPeripheralDiscovery", "connectCallback",
     "discoverCallback", "connectedTimer", "onDisconnect"}

\* C35: the handling of a disconnect, and the handlers that lead to the next
\* connection, leave the three step counters, batteryLevel, flightStatus and
\* alertStatus as they were: after a reconnect the counters continue from their
\* values before the disconnect and the flight status last decoded is still held.
C35_DisconnectKeepsState ==
    [][lastOp' \in LifeOps
       => UNCHANGED <<steps, batteryLevel, flightStatus, alertStatus>>]_vars

\* A disconnect handled after a send and a flight-status frame.
C35_Witness ==
    /\ lastOp = "onDisconnect"
    /\ steps[COMMAND_KEY] = 1
    /\ flightStatus = "hovering"
    /\ ~connected

\* Connected again, with the counter and the status of before the disconnect.
C35_WitnessReconnected ==
    /\ lastOp = "discoverCallback"
    /\ connected
    /\ steps[COMMAND_KEY] = 1
    /\ flightStatus = "hovering"

\* C36: decodePacket raises for no inbound byte sequence; a frame shorter than
\* its header, or shorter than the fields its decoder reads, changes no state
\* and emits no event.
C36_DecodeNeverRaises ==
    [][lastOp' \in RxOps
       => /\ ~raised'
          /\ Len(lastArg') < 7
               => (events' = <<>> /\ UNCHANGED <<batteryLevel, flightStatus, alertStatus>>)]_vars

\* The field of the adapter an event of the decoder reports.
FieldOf(name) ==
    CASE name = "batteryStatusChange" -> <<batteryLevel>>
      [] name = "flightStatusChange" -> <<flightStatus>>
      [] name = "alertStateChange" -> <<alertStatus>>
      [] OTHER -> <<>>

\* C37: a battery, flight-status or alert event carries the value the adapter
\* holds in batteryLevel, flightStatus or alertStatus when the handler that
\* emitted it has run: the field was assigned before the event was emitted,
\* and a subscriber that reads it from inside its handler reads that value.
C37_StateBeforeEvent ==
    lastOp \in RxOps
      => \A i \in 1..Len(events) :
            FieldOf(events[i].name) # <<>>
              => <<events[i].payload>> = FieldOf(events[i].name)

\* A battery event carrying 200 after the level was 1.
C37_Witness ==
    /\ lastOp \in RxOps
    /\ events = <<Event("batteryStatusChange", 200)>>
    /\ batteryLevel = 200

C38_WitnessUnset ==
    /\ lastOp = "writeTakeoff"
    /\ flightStatus = NULL
    /\ writes # <<>>
    /\ writes[1].buffer = <<2, 1, 2, 0, 1, 0>>

\* The code of each of the four animation names.
AnimationCode(name) ==
    CASE name = "flipFront" -> 0
      [] name = "flipBack" -> 1
      [] name = "flipRight" -> 2
      [] name = "flipLeft" -> 3

\* C39: writeAnimation with a name other than flipFront, flipBack, flipRight and
\* flipLeft writes no frame and leaves the step counters as they were; with one
\* of the four, on an adapter that holds characteristics, it writes one frame
\* 2, step, 2, 4, 0, 0, code, 0, 0, 0 to fa0b, with code 0, 1, 2, 3.
C39_AnimationFrames ==
    [][lastOp' = "writeAnimation"
       => IF lastArg'[1] \in {"flipFront", "flipBack", "flipRight", "flipLeft"}
          THEN characteristics # {}
                 => /\ Len(writes') = 1
                    /\ writes'[1].uuid = "fa0b"
                    /\ writes'[1].buffer =
                         <<2, (steps["fa0b"] + 1) % 256, 2, 4, 0, 0,
                           AnimationCode(lastArg'[1]), 0, 0, 0>>
          ELSE writes' = <<>> /\ UNCHANGED steps]_vars

====
